---- MODULE Spec2Model ----
(***************************************************************************)
(* Model of pin/gc/gc.go: the mark-and-sweep collector of the blockstore.  *)
(*                                                                         *)
(*   GC          takes the exclusive GC lock, builds the marked set with   *)
(*               ColoredSet, starts the key enumeration and sweeps in a    *)
(*               goroutine that hands every deleted key to the caller.     *)
(*   ColoredSet  recursive roots (strict), best-effort roots (tolerant),   *)
(*               direct keys (no descent), internal pins (strict).         *)
(*   Descendants adds each root and walks its children with a visitor      *)
(*               that stops at keys already in the set.                    *)
(*                                                                         *)
(* Blocks are fetched through an offline exchange over the same            *)
(* blockstore (gc.go line 30), so a node can be fetched exactly when its   *)
(* key is in the store.                                                    *)
(***************************************************************************)
EXTENDS Integers, Sequences, FiniteSets, TLC

\* ------------------------------------------------------------------ bounds
NumKeys == 4

MaxPins == 2

NumNodes == 3

Keys == 1..NumKeys

\* The blocks whose links vary when Descendants is walked over every graph.
Nodes == 1..NumNodes

\* The concurrent callers of GC: a pair contends for the lock.
Passes == {1, 2}

\* The four root categories ColoredSet reads.
Categories == {"recursive", "besteffort", "direct", "internal"}

\* ------------------------------------------------------------ block graph
\* Child links of the block with key k, in link order.  The graph is a chain
\* 1 -> 2 -> ... -> NumKeys whose last-but-one block also links back to its
\* parent (a cycle) and whose first block also links to the last block (a
\* shared child with two parents).
Links(k) ==
    IF k = 1 /\ NumKeys > 2 THEN <<2, NumKeys>>
    ELSE IF k = NumKeys - 1 /\ k > 1 THEN <<NumKeys, k - 1>>
    ELSE IF k < NumKeys THEN <<k + 1>>
    ELSE <<>>

\* ds.Get over an offline exchange: the node is found iff the store has it.
Fetchable(st, k) == k \in st

Range(s) == {s[i] : i \in 1..Len(s)}

\* The exclusive GC lock of the blockstore can be taken when nobody holds it.
LockFree(l) == l = {}

\* The blockstore's DeleteBlock(k) succeeds only on a block it holds, and
\* removes it.
CanDelete(st, k) == k \in st

StoreDelete(st, k) == st \ {k}

\* --------------------------------------------------------------- mark phase
\* Mutant: the visitor never looks at the set, every link is descended into.
VisitDescendAlways(set, k) == TRUE

\* The visitor handed to EnumerateChildren: descend only into unseen keys.
VisitDescend(set, k) == k \notin set

\* The visitor's effect on the set: an unseen key is added.
VisitSet(set, k) == set \cup {k}

\* dag.EnumerateChildren(ctx, ds, nd, visit, bestEffort) over the links lks of
\* the node nd: for every link the visitor says to descend into, fetch the
\* child and recurse; a failed fetch is skipped when bestEffort, returned
\* otherwise.  The result is [err, set].
RECURSIVE EnumerateChildren(_, _, _, _)
EnumerateChildren(st, set, lks, bestEffort) ==
    IF lks = <<>> THEN [err |-> FALSE, set |-> set]
    ELSE LET c == Head(lks) IN
         IF ~VisitDescend(set, c)
         THEN EnumerateChildren(st, set, Tail(lks), bestEffort)
         ELSE LET set1 == VisitSet(set, c) IN
              IF ~Fetchable(st, c)
              THEN IF bestEffort
                   THEN EnumerateChildren(st, set1, Tail(lks), bestEffort)
                   ELSE [err |-> TRUE, set |-> set1]
              ELSE LET r == EnumerateChildren(st, set1, Links(c), bestEffort) IN
                   IF r.err THEN r
                   ELSE EnumerateChildren(st, r.set, Tail(lks), bestEffort)

\* Mutant: the root's key is added only after its node was fetched.
RECURSIVE DescendantsAddAfterGet(_, _, _, _)
DescendantsAddAfterGet(st, set, roots, bestEffort) ==
    IF roots = <<>> THEN [err |-> FALSE, set |-> set]
    ELSE LET c == Head(roots) IN
         IF ~Fetchable(st, c)
         THEN [err |-> TRUE, set |-> set]
         ELSE LET r == EnumerateChildren(st, set \cup {c}, Links(c),
                                         bestEffort) IN
              IF r.err THEN r
              ELSE DescendantsAddAfterGet(st, r.set, Tail(roots), bestEffort)

\* Descendants(ctx, ds, set, roots, bestEffort): for each root in order, add
\* its key, fetch its node (an error is returned whatever bestEffort says),
\* then enumerate its children.
RECURSIVE Descendants(_, _, _, _)
Descendants(st, set, roots, bestEffort) ==
    IF roots = <<>> THEN [err |-> FALSE, set |-> set]
    ELSE LET c    == Head(roots)
             set1 == set \cup {c}
         IN  IF ~Fetchable(st, c)
             THEN [err |-> TRUE, set |-> set1]
             ELSE LET r == EnumerateChildren(st, set1, Links(c), bestEffort) IN
                  IF r.err THEN r
                  ELSE Descendants(st, r.set, Tail(roots), bestEffort)

\* Mutant: a direct key brings the children of its block with it.
AddDirectWithChildren(set, keys) ==
    set \cup Range(keys) \cup UNION {Range(Links(k)) : k \in Range(keys)}

\* The loop over pn.DirectKeys(): every key is added, nothing is fetched.
AddDirect(set, keys) == set \cup Range(keys)

\* Mutant: the error of the mark phase is dropped and the pass goes on.
MarkFailedIgnored(r) == FALSE

\* "if err != nil { return nil, err }" after a step of the mark phase.
MarkFailed(r) == r.err

\* Mutant: the membership test is inverted ("if gcs.Has(k)").
ShouldDeleteMarked(set, k) == k \in set

\* Mutant: the membership test is missing, every enumerated key is deleted.
ShouldDeleteAlways(set, k) == TRUE

\* "!gcs.Has(k)": the sweep deletes exactly the keys outside the marked set.
ShouldDelete(set, k) == k \notin set

\* ------------------------------------------------------------------- state
VARIABLES
    store,            \* keys of the blocks in the blockstore
    lock,             \* passes holding the exclusive GC lock
    recursiveKeys,    \* pn.RecursiveKeys()
    directKeys,       \* pn.DirectKeys()
    internalPins,     \* pn.InternalPins()
    bestEffortRoots,  \* the bestEffortRoots argument of GC
    pc,               \* position of each pass
    gcs,              \* the marked set of each pass
    err,              \* the error GC returned: "none" or the failing step
    enum,             \* the keys AllKeysChan delivers, in order
    keychan,          \* the keys not yet received from keychan
    cur,              \* k, the key in hand (0: none)
    cancelled,        \* ctx.Done() is closed
    output,           \* "none", "open" or "closed"
    received,         \* keys the consumer received on output, in order
    deleted,          \* keys whose DeleteBlock succeeded in this pass
    exit,             \* why the sweep goroutine returned
    stalled,          \* the enumeration delivers nothing more on keychan
    graph,            \* the links of every block, while Descendants is walked
    walk              \* the position of a call of Descendants walked in steps

vars == <<store, lock, recursiveKeys, directKeys, internalPins, bestEffortRoots,
          pc, gcs, err, enum, keychan, cur, cancelled, output, received,
          deleted, exit, stalled, graph, walk>>

walkvars == <<graph, walk>>

pins == <<recursiveKeys, directKeys, internalPins, bestEffortRoots>>

\* ---------------------------------------------------------------- initial
\* A pin list: at most MaxPins entries <<category, key>>; each category's
\* roots are the entries of that category, in order.
PinLists == UNION {[1..n -> Categories \X Keys] : n \in 0..MaxPins}

RECURSIVE RootsOf(_, _)
RootsOf(pl, cat) ==
    IF pl = <<>> THEN <<>>
    ELSE IF Head(pl)[1] = cat THEN <<Head(pl)[2]>> \o RootsOf(Tail(pl), cat)
    ELSE RootsOf(Tail(pl), cat)

\* No pass has started: the lock is free and nothing was marked, enumerated,
\* deleted or emitted.
NoPassStarted ==
    /\ lock = {}
    /\ pc = [p \in Passes |-> "gclock"]
    /\ gcs = [p \in Passes |-> {}]
    /\ err = [p \in Passes |-> "none"]
    /\ enum = [p \in Passes |-> <<>>]
    /\ keychan = [p \in Passes |-> <<>>]
    /\ cur = [p \in Passes |-> 0]
    /\ cancelled = [p \in Passes |-> FALSE]
    /\ output = [p \in Passes |-> "none"]
    /\ received = [p \in Passes |-> <<>>]
    /\ deleted = [p \in Passes |-> {}]
    /\ exit = [p \in Passes |-> "none"]
    /\ stalled = [p \in Passes |-> FALSE]

\* The links of the blocks as a function of the key.
ChainGraph == [k \in Keys |-> Links(k)]

\* No call of Descendants is walked in steps.
NoWalk == [pc |-> "idle", set |-> {}, roots |-> <<>>, roots0 |-> <<>>,
           stack |-> <<>>, bestEffort |-> FALSE]

Init ==
    /\ store \in SUBSET Keys
    /\ \E pl \in PinLists :
         /\ recursiveKeys   = RootsOf(pl, "recursive")
         /\ bestEffortRoots = RootsOf(pl, "besteffort")
         /\ directKeys      = RootsOf(pl, "direct")
         /\ internalPins    = RootsOf(pl, "internal")
    /\ NoPassStarted
    /\ graph = ChainGraph
    /\ walk = NoWalk

\* ----------------------------------------------------------------- actions
\* Mutant: the lock is taken without waiting for its holder to release it.
GCLockNoWait(p) ==
    /\ pc[p] = "gclock"
    /\ lock' = lock \cup {p}
    /\ pc' = [pc EXCEPT ![p] = "recursive"]
    /\ UNCHANGED <<store, pins, stalled, walkvars, gcs, err, enum, keychan, cur, cancelled,
                   output, received, deleted, exit>>

\* unlocker := bs.GCLock(): blocks until no pass holds the lock.
GCLock(p) ==
    /\ pc[p] = "gclock"
    /\ LockFree(lock)
    /\ lock' = lock \cup {p}
    /\ pc' = [pc EXCEPT ![p] = "recursive"]
    /\ UNCHANGED <<store, pins, stalled, walkvars, gcs, err, enum, keychan, cur, cancelled,
                   output, received, deleted, exit>>

\* One step of ColoredSet whose result is r: on error GC returns (nil, err)
\* without unlocking; otherwise the set is kept and the next step follows.
MarkStep(p, r, step, next) ==
    /\ IF MarkFailed(r)
       THEN /\ pc' = [pc EXCEPT ![p] = "failed"]
            /\ err' = [err EXCEPT ![p] = step]
            /\ gcs' = [gcs EXCEPT ![p] = {}]
       ELSE /\ pc' = [pc EXCEPT ![p] = next]
            /\ gcs' = [gcs EXCEPT ![p] = r.set]
            /\ err' = err
    /\ UNCHANGED <<store, lock, pins, stalled, walkvars, enum, keychan, cur, cancelled, output,
                   received, deleted, exit>>

\* Descendants(ctx, ds, gcs, pn.RecursiveKeys(), false)
MarkRecursive(p) ==
    /\ pc[p] = "recursive"
    /\ MarkStep(p, Descendants(store, {}, recursiveKeys, FALSE),
                "recursive", "besteffort")

\* Descendants(ctx, ds, gcs, bestEffortRoots, true)
MarkBestEffort(p) ==
    /\ pc[p] = "besteffort"
    /\ MarkStep(p, Descendants(store, gcs[p], bestEffortRoots, TRUE),
                "besteffort", "direct")

\* for _, k := range pn.DirectKeys() { gcs.Add(k) }
MarkDirect(p) ==
    /\ pc[p] = "direct"
    /\ MarkStep(p, [err |-> FALSE, set |-> AddDirect(gcs[p], directKeys)],
                "direct", "internal")

\* Descendants(ctx, ds, gcs, pn.InternalPins(), false)
MarkInternal(p) ==
    /\ pc[p] = "internal"
    /\ MarkStep(p, Descendants(store, gcs[p], internalPins, FALSE),
                "internal", "allkeys")

\* ColoredSet(ctx, pn, ds, bestEffortRoots) over the store st, as one
\* function: the four steps in order, the first error returned.
ColoredSet(st) ==
    LET r1 == Descendants(st, {}, recursiveKeys, FALSE) IN
    IF r1.err THEN [err |-> TRUE, set |-> {}]
    ELSE LET r2 == Descendants(st, r1.set, bestEffortRoots, TRUE) IN
         IF r2.err THEN [err |-> TRUE, set |-> {}]
         ELSE LET r4 == Descendants(st, AddDirect(r2.set, directKeys),
                                    internalPins, FALSE) IN
              IF r4.err THEN [err |-> TRUE, set |-> {}] ELSE r4

\* The orders in which AllKeysChan may deliver the keys of st: each key once.
RECURSIVE Ascending(_)
Ascending(st) ==
    IF st = {} THEN <<>>
    ELSE LET m == CHOOSE x \in st : \A y \in st : x <= y
         IN  <<m>> \o Ascending(st \ {m})

Reverse(s) == [i \in 1..Len(s) |-> s[Len(s) + 1 - i]]

EnumOrders(st) == {Ascending(st), Reverse(Ascending(st))}

\* keychan, err := bs.AllKeysChan(ctx): an error makes GC return (nil, err)
\* without unlocking; otherwise output is made, the sweep goroutine is
\* started and GC returns (output, nil).
AllKeysChan(p) ==
    /\ pc[p] = "allkeys"
    /\ \/ /\ pc' = [pc EXCEPT ![p] = "failed"]
          /\ err' = [err EXCEPT ![p] = "allkeys"]
          /\ UNCHANGED <<enum, keychan, output>>
       \/ \E order \in EnumOrders(store) :
             /\ enum' = [enum EXCEPT ![p] = order]
             /\ keychan' = [keychan EXCEPT ![p] = order]
             /\ output' = [output EXCEPT ![p] = "open"]
             /\ pc' = [pc EXCEPT ![p] = "select"]
             /\ err' = err
    /\ UNCHANGED <<store, lock, pins, stalled, walkvars, gcs, cur, cancelled, received, deleted,
                   exit>>

\* The sweep goroutine returns: the deferred calls run, Unlock first.
Return(p, why) ==
    /\ pc' = [pc EXCEPT ![p] = "unlock"]
    /\ exit' = [exit EXCEPT ![p] = why]
    /\ cur' = [cur EXCEPT ![p] = 0]

\* case k, ok := <-keychan with ok: a marked key is skipped, any other key
\* goes to DeleteBlock.
SweepRecv(p) ==
    /\ pc[p] = "select"
    /\ ~stalled[p]
    /\ keychan[p] # <<>>
    /\ LET k == Head(keychan[p]) IN
         /\ keychan' = [keychan EXCEPT ![p] = Tail(keychan[p])]
         /\ IF ShouldDelete(gcs[p], k)
            THEN /\ pc' = [pc EXCEPT ![p] = "delete"]
                 /\ cur' = [cur EXCEPT ![p] = k]
            ELSE UNCHANGED <<pc, cur>>
    /\ UNCHANGED <<store, lock, pins, stalled, walkvars, gcs, err, enum, cancelled, output,
                   received, deleted, exit>>

\* case k, ok := <-keychan with !ok: the enumeration is exhausted.
SweepClosed(p) ==
    /\ pc[p] = "select"
    /\ ~stalled[p]
    /\ keychan[p] = <<>>
    /\ Return(p, "exhausted")
    /\ UNCHANGED <<store, lock, pins, stalled, walkvars, gcs, err, enum, keychan, cancelled,
                   output, received, deleted>>

\* Mutant: the outer select has no ctx.Done() case.
SweepCancelMissing(p) == FALSE

\* case <-ctx.Done() of the outer select.
SweepCancel(p) ==
    /\ pc[p] = "select"
    /\ cancelled[p]
    /\ Return(p, "cancel")
    /\ UNCHANGED <<store, lock, pins, stalled, walkvars, gcs, err, enum, keychan, cancelled,
                   output, received, deleted>>

\* Mutant: the error of DeleteBlock is not checked, the key is sent anyway.
DeleteBlockUnchecked(p) ==
    /\ pc[p] = "delete"
    /\ \E io \in BOOLEAN :
         IF io /\ CanDelete(store, cur[p])
         THEN /\ store' = StoreDelete(store, cur[p])
              /\ deleted' = [deleted EXCEPT ![p] = @ \cup {cur[p]}]
         ELSE UNCHANGED <<store, deleted>>
    /\ pc' = [pc EXCEPT ![p] = "send"]
    /\ UNCHANGED <<lock, pins, stalled, walkvars, gcs, err, enum, keychan, cur, cancelled,
                   output, received, exit>>

\* Mutant: a failed DeleteBlock is logged and the loop goes on with the next
\* key instead of returning.
DeleteBlockContinues(p) ==
    /\ pc[p] = "delete"
    /\ \E io \in BOOLEAN :
         IF io /\ CanDelete(store, cur[p])
         THEN /\ store' = StoreDelete(store, cur[p])
              /\ deleted' = [deleted EXCEPT ![p] = @ \cup {cur[p]}]
              /\ pc' = [pc EXCEPT ![p] = "send"]
              /\ UNCHANGED cur
         ELSE /\ pc' = [pc EXCEPT ![p] = "select"]
              /\ cur' = [cur EXCEPT ![p] = 0]
              /\ UNCHANGED <<store, deleted>>
    /\ UNCHANGED <<lock, pins, stalled, walkvars, gcs, err, enum, keychan, cancelled, output,
                   received, exit>>

\* Mutant: after a successful DeleteBlock the key is not sent, the loop goes
\* on with the next key.
DeleteBlockNoSend(p) ==
    /\ pc[p] = "delete"
    /\ \E io \in BOOLEAN :
         IF io /\ CanDelete(store, cur[p])
         THEN /\ store' = StoreDelete(store, cur[p])
              /\ deleted' = [deleted EXCEPT ![p] = @ \cup {cur[p]}]
              /\ pc' = [pc EXCEPT ![p] = "select"]
              /\ cur' = [cur EXCEPT ![p] = 0]
              /\ UNCHANGED exit
         ELSE /\ Return(p, "delerr")
              /\ UNCHANGED <<store, deleted>>
    /\ UNCHANGED <<lock, pins, stalled, walkvars, gcs, err, enum, keychan, cancelled, output,
                   received>>

\* err := bs.DeleteBlock(k): fails when the block is absent or on an I/O
\* error; a failure is logged and the goroutine returns.
DeleteBlock(p) ==
    /\ pc[p] = "delete"
    /\ \E io \in BOOLEAN :
         IF io /\ CanDelete(store, cur[p])
         THEN /\ store' = StoreDelete(store, cur[p])
              /\ deleted' = [deleted EXCEPT ![p] = @ \cup {cur[p]}]
              /\ pc' = [pc EXCEPT ![p] = "send"]
              /\ UNCHANGED <<cur, exit>>
         ELSE /\ Return(p, "delerr")
              /\ UNCHANGED <<store, deleted>>
    /\ UNCHANGED <<lock, pins, stalled, walkvars, gcs, err, enum, keychan, cancelled, output,
                   received>>

\* case output <- k: the consumer receives k (output is unbuffered).
Handoff(p) ==
    /\ pc[p] = "send"
    /\ received' = [received EXCEPT ![p] = Append(@, cur[p])]
    /\ pc' = [pc EXCEPT ![p] = "select"]
    /\ cur' = [cur EXCEPT ![p] = 0]
    /\ UNCHANGED <<store, lock, pins, stalled, walkvars, gcs, err, enum, keychan, cancelled,
                   output, deleted, exit>>

\* Mutant: the inner select has no ctx.Done() case.
SendCancelMissing(p) == FALSE

\* case <-ctx.Done() of the inner select.
SendCancel(p) ==
    /\ pc[p] = "send"
    /\ cancelled[p]
    /\ Return(p, "cancel")
    /\ UNCHANGED <<store, lock, pins, stalled, walkvars, gcs, err, enum, keychan, cancelled,
                   output, received, deleted>>

\* defer unlocker.Unlock(): registered last, so it runs first.
Unlock(p) ==
    /\ pc[p] = "unlock"
    /\ lock' = lock \ {p}
    /\ pc' = [pc EXCEPT ![p] = "close"]
    /\ UNCHANGED <<store, pins, stalled, walkvars, gcs, err, enum, keychan, cur, cancelled,
                   output, received, deleted, exit>>

\* defer close(output)
CloseOutput(p) ==
    /\ pc[p] = "close"
    /\ output' = [output EXCEPT ![p] = "closed"]
    /\ pc' = [pc EXCEPT ![p] = "done"]
    /\ UNCHANGED <<store, lock, pins, stalled, walkvars, gcs, err, enum, keychan, cur, cancelled,
                   received, deleted, exit>>

\* The caller cancels ctx.  The mark phase does not look at ctx, so a
\* cancellation before the enumeration starts is seen as one at "allkeys".
Cancel(p) ==
    /\ pc[p] \in {"allkeys", "select", "delete", "send"}
    /\ ~cancelled[p]
    /\ cancelled' = [cancelled EXCEPT ![p] = TRUE]
    /\ UNCHANGED <<store, lock, pins, stalled, walkvars, pc, gcs, err, enum, keychan, cur,
                   output, received, deleted, exit>>

\* bs.AllKeysChan(ctx) got the cancelled ctx: from now on its goroutine may
\* deliver nothing more on keychan, neither a key nor the close.
Stall(p) ==
    /\ pc[p] \in {"select", "delete", "send"}
    /\ cancelled[p]
    /\ ~stalled[p]
    /\ stalled' = [stalled EXCEPT ![p] = TRUE]
    /\ UNCHANGED <<store, lock, pins, walkvars, pc, gcs, err, enum, keychan,
                   cur, cancelled, output, received, deleted, exit>>

\* The steps of the sweep goroutine that need nobody else.
SweepTask(p) ==
    \/ SweepRecv(p)
    \/ SweepClosed(p)
    \/ SweepCancel(p)
    \/ DeleteBlock(p)
    \/ SendCancel(p)
    \/ Unlock(p)
    \/ CloseOutput(p)

\* Every step pass p can take, with the consumer's receive and the caller's
\* cancellation.
PassStep(p) ==
    \/ GCLock(p)
    \/ MarkRecursive(p)
    \/ MarkBestEffort(p)
    \/ MarkDirect(p)
    \/ MarkInternal(p)
    \/ AllKeysChan(p)
    \/ SweepTask(p)
    \/ Handoff(p)
    \/ Cancel(p)
    \/ Stall(p)

\* A single call of GC, over every store and pin registry within the bounds.
Next == PassStep(1)

Spec == Init /\ [][Next]_vars

\* The narrow initial states: the store misses at most one block and the
\* registry holds at most one pin.
NarrowInit ==
    /\ Init
    /\ Cardinality(Keys \ store) <= 1
    /\ Len(recursiveKeys) + Len(bestEffortRoots) + Len(directKeys)
         + Len(internalPins) <= 1

\* A single call of GC from the narrow initial states.  The scheduler runs
\* the sweep goroutine whenever it can take a step; the consumer and the
\* caller's cancellation are under no obligation.
FairSpec == NarrowInit /\ [][Next]_vars /\ WF_vars(SweepTask(1))

\* Concurrent calls of GC, one per pass, contending for the lock, from the
\* narrow initial states.
PassesNext == \E p \in Passes : PassStep(p)

PassesSpec == NarrowInit /\ [][PassesNext]_vars

\* ------------------------------------------------- Descendants, step by step
\* The same call of Descendants as above, one fetch or visit at a time, with
\* the recursion of EnumerateChildren as a stack of the links still to visit.
\* The links of a block are read from graph.

\* Every graph over Nodes with at most one link per block, and the graph of
\* Links.
NodeLinks == {<<>>} \cup {<<n>> : n \in Nodes}

Graphs ==
    {[k \in Keys |-> IF k \in Nodes THEN f[k] ELSE <<>>] :
        f \in [Nodes -> NodeLinks]} \cup {ChainGraph}

\* One root, or two distinct roots.
RootLists ==
    {<<a>> : a \in Nodes} \cup {r \in Nodes \X Nodes : r[1] # r[2]}

WalkInit ==
    /\ store \in SUBSET Keys
    /\ Cardinality(Keys \ store) <= 1
    /\ recursiveKeys = <<>>
    /\ bestEffortRoots = <<>>
    /\ directKeys = <<>>
    /\ internalPins = <<>>
    /\ NoPassStarted
    /\ graph \in Graphs
    /\ \E r \in RootLists, be \in BOOLEAN :
         walk = [pc |-> "roots", set |-> {}, roots |-> r, roots0 |-> r,
                 stack |-> <<>>, bestEffort |-> be]

passvars == <<store, lock, pins, pc, gcs, err, enum, keychan, cur, cancelled,
              output, received, deleted, exit, stalled>>

\* "for _, c := range roots": set.Add(c), then ds.Get(ctx, c); its error is
\* returned, otherwise EnumerateChildren starts on the links of the node.
WalkRoot ==
    /\ walk.pc = "roots"
    /\ walk.roots # <<>>
    /\ LET c    == Head(walk.roots)
           set1 == walk.set \cup {c}
       IN  IF ~Fetchable(store, c)
           THEN walk' = [walk EXCEPT !.set = set1, !.pc = "error"]
           ELSE walk' = [walk EXCEPT !.set = set1, !.roots = Tail(@),
                                     !.stack = <<graph[c]>>,
                                     !.pc = "children"]
    /\ UNCHANGED <<passvars, graph>>

\* The range over roots is finished: return nil.
WalkDone ==
    /\ walk.pc = "roots"
    /\ walk.roots = <<>>
    /\ walk' = [walk EXCEPT !.pc = "done"]
    /\ UNCHANGED <<passvars, graph>>

\* EnumerateChildren takes the next link of the node on top: the visitor
\* refuses a key already in the set; otherwise the key is added and the child
\* fetched, a failed fetch being skipped when bestEffort and returned
\* otherwise, and the walk recurses into the child's links.
WalkChild ==
    /\ walk.pc = "children"
    /\ Len(walk.stack) <= NumKeys
    /\ LET n    == Len(walk.stack)
           top  == walk.stack[n]
           c    == Head(top)
           rest == [walk.stack EXCEPT ![n] = Tail(top)]
           set1 == VisitSet(walk.set, c)
       IN  /\ top # <<>>
           /\ IF ~VisitDescend(walk.set, c)
              THEN walk' = [walk EXCEPT !.stack = rest]
              ELSE IF ~Fetchable(store, c)
              THEN IF walk.bestEffort
                   THEN walk' = [walk EXCEPT !.set = set1, !.stack = rest]
                   ELSE walk' = [walk EXCEPT !.set = set1, !.pc = "error"]
              ELSE walk' = [walk EXCEPT !.set = set1,
                                        !.stack = Append(rest, graph[c])]
    /\ UNCHANGED <<passvars, graph>>

\* The links of the node on top are exhausted: EnumerateChildren returns to
\* the parent node, or to the loop over the roots.
WalkReturn ==
    /\ walk.pc = "children"
    /\ walk.stack[Len(walk.stack)] = <<>>
    /\ walk' = [walk EXCEPT
                  !.stack = SubSeq(@, 1, Len(@) - 1),
                  !.pc = IF Len(walk.stack) = 1 THEN "roots" ELSE "children"]
    /\ UNCHANGED <<passvars, graph>>

WalkNext == WalkRoot \/ WalkDone \/ WalkChild \/ WalkReturn

\* A call of Descendants on every graph, store and root list within the
\* bounds; the call runs on: it is an ordinary function call.
WalkSpec == WalkInit /\ [][WalkNext]_vars /\ WF_vars(WalkNext)


\* ================================================================= claims
SweepPcs == {"select", "delete", "send"}

MarkPcs == {"recursive", "besteffort", "direct", "internal"}

NoDup(s) == \A i, j \in 1..Len(s) : s[i] = s[j] => i = j

\* The keys reachable from the roots R through the links of the blocks the
\* store st holds (an absent block has no links to follow).
RECURSIVE Reach(_, _)
Reach(st, R) ==
    LET more == R \cup UNION {Range(Links(k)) : k \in R \cap st}
    IN  IF more = R THEN R ELSE Reach(st, more)

\* The union of the four contributions to the marked set.
ExpectedLive(st) ==
    Reach(st, Range(recursiveKeys)) \cup Reach(st, Range(bestEffortRoots))
        \cup Range(directKeys) \cup Reach(st, Range(internalPins))

\* C1 (as claimed): once a pass has ended, by a setup failure or by the end
\* of its sweep goroutine, it no longer holds the GC lock.
C1_LockReleasedAfterPass ==
    \A p \in Passes : pc[p] \in {"failed", "done"} => p \notin lock

\* C2: a pass whose setup succeeded, that was never cancelled, saw no delete
\* error and was drained to the close has deleted exactly the keys it
\* emitted, which are exactly the enumerated keys outside the marked set, and
\* leaves in the store exactly the enumerated keys of the marked set.
C2_SweepCorrect ==
    \A p \in Passes :
        (pc[p] = "done" /\ exit[p] = "exhausted" /\ ~cancelled[p]) =>
            /\ deleted[p] = Range(received[p])
            /\ deleted[p] = Range(enum[p]) \ gcs[p]
            /\ store = Range(enum[p]) \cap gcs[p]

C2_Witness ==
    \E p \in Passes :
        /\ pc[p] = "done" /\ exit[p] = "exhausted" /\ ~cancelled[p]
        /\ Cardinality(deleted[p]) >= 2
        /\ store # {}

\* C3 (as claimed): when ColoredSet succeeds, the marked set is the union of
\* the closures of the recursive, best-effort and internal roots and of the
\* direct keys.
C3_LiveSetIsUnion ==
    \A p \in Passes : pc[p] = "allkeys" => gcs[p] = ExpectedLive(store)

\* C4: in every state of the sweep no key of the marked set has been deleted
\* by the pass, and every enumerated key of the marked set is in the store.
C4_LiveNeverDeleted ==
    \A p \in Passes :
        pc[p] \in SweepPcs \cup {"unlock", "close", "done"} =>
            /\ deleted[p] \cap gcs[p] = {}
            /\ (Range(enum[p]) \cap gcs[p]) \subseteq store

C4_Witness ==
    \E p \in Passes :
        /\ pc[p] = "send"
        /\ cancelled[p]
        /\ received[p] # <<>>
        /\ gcs[p] \cap Range(enum[p]) # {}
        /\ gcs[p] \cap Range(keychan[p]) # {}

\* C5 (as claimed): the tolerant walk over the best-effort roots never makes
\* GC return an error.
C5_BestEffortNeverFails ==
    \A p \in Passes : err[p] # "besteffort"

\* C6: a pass that failed in its setup has returned an error and no output
\* and has deleted nothing; and a pass deletes nothing and returns no output
\* when a recursive or internal root cannot be fetched.
C6_FailedPassDeletesNothing ==
    \A p \in Passes :
        /\ pc[p] = "failed" =>
              err[p] # "none" /\ output[p] = "none" /\ deleted[p] = {}
        /\ (Range(recursiveKeys) \cup Range(internalPins)) \ store # {} =>
              output[p] = "none" /\ deleted[p] = {}

C6_Witness ==
    \E p \in Passes :
        /\ pc[p] = "failed"
        /\ err[p] = "internal"
        /\ store \ (Range(recursiveKeys) \cup Range(directKeys)) # {}

\* C7: under any interleaving no key is emitted twice, the pass performs no
\* DeleteBlock once its sweep goroutine has taken a ctx.Done() case, and a
\* cancellation during the sweep leads to a closed output channel.
C7_CancellationSafety ==
    /\ [](\A p \in Passes : NoDup(received[p]))
    /\ [][\A p \in Passes :
            exit[p] = "cancel" =>
                /\ pc'[p] \notin SweepPcs
                /\ deleted'[p] = deleted[p]
                /\ store' = store]_vars
    /\ \A p \in Passes :
          (cancelled[p] /\ pc[p] \in SweepPcs) ~> (output[p] = "closed")

C7_Witness ==
    \E p \in Passes :
        /\ pc[p] = "done"
        /\ exit[p] = "cancel"
        /\ output[p] = "closed"
        /\ received[p] # <<>>
        /\ keychan[p] # <<>>

\* C8: every key the consumer received had been deleted by the pass and is
\* absent from the store, and no key was received twice, however the pass
\* ended.
C8_EmittedWereDeleted ==
    \A p \in Passes :
        /\ \A i \in 1..Len(received[p]) :
              received[p][i] \in deleted[p] /\ received[p][i] \notin store
        /\ \A i, j \in 1..Len(received[p]) :
              i # j => received[p][i] # received[p][j]

C8_Witness ==
    \E p \in Passes :
        /\ pc[p] = "done"
        /\ exit[p] = "delerr"
        /\ Len(received[p]) >= 2

\* C9 (as claimed): when the pass has ended, every key it deleted has been
\* received by the consumer.
C9_DeletedAreReported ==
    \A p \in Passes :
        pc[p] = "done" => deleted[p] \subseteq Range(received[p])

\* C10: a pass that is building its marked set, starting the enumeration or
\* sweeping holds the GC lock, alone; so no two passes are in their mark or
\* sweep phase together.
C10_LockHeldThroughPass ==
    /\ \A p \in Passes :
          pc[p] \in MarkPcs \cup {"allkeys"} \cup SweepPcs => lock = {p}
    /\ \A p, q \in Passes :
          (/\ pc[p] \in MarkPcs \cup {"allkeys"} \cup SweepPcs
           /\ pc[q] \in MarkPcs \cup {"allkeys"} \cup SweepPcs) => p = q

C10_Witness ==
    \E p, q \in Passes :
        /\ p # q
        /\ pc[p] = "done" /\ deleted[p] # {}
        /\ pc[q] = "delete" /\ lock = {q}

\* A pass that ran to completion: not cancelled, no delete error, drained.
CleanDone(p) == pc[p] = "done" /\ exit[p] = "exhausted" /\ ~cancelled[p]

\* C11: once a pass has run to completion, a pass over the same roots finds
\* the same marked set and a store inside it, and no step of another pass
\* deletes or emits a key.
C11_SecondPassIdle ==
    /\ [](\A p \in Passes :
            CleanDone(p) =>
                /\ ColoredSet(store) = [err |-> FALSE, set |-> gcs[p]]
                /\ store \subseteq gcs[p])
    /\ [][\A p, q \in Passes :
            (p # q /\ CleanDone(p)) =>
                /\ deleted'[q] = deleted[q]
                /\ received'[q] = received[q]
                /\ store' = store]_vars

C11_Witness ==
    \E p, q \in Passes :
        /\ p # q
        /\ CleanDone(p) /\ deleted[p] # {}
        /\ CleanDone(q) /\ enum[q] # <<>>
        /\ Range(enum[q]) \cap deleted[p] = {}
        /\ deleted[q] = {} /\ received[q] = <<>>

\* The children of the directly pinned blocks.
DirectChildren == UNION {Range(Links(d)) : d \in Range(directKeys)}

\* C13: a child of a directly pinned block is marked only if it is a direct
\* key itself or is reachable from (or is) a recursive, best-effort or
\* internal root; and a pass that ran to completion has deleted every
\* enumerated child of a direct key that was left unmarked.
C13_DirectPinNoDescent ==
    \A p \in Passes :
        /\ pc[p] = "allkeys" =>
              \A c \in DirectChildren \cap gcs[p] :
                  \/ c \in Range(directKeys)
                  \/ c \in Reach(store, Range(recursiveKeys))
                  \/ c \in Reach(store, Range(bestEffortRoots))
                  \/ c \in Reach(store, Range(internalPins))
        /\ CleanDone(p) =>
              \A c \in DirectChildren \cap (Range(enum[p]) \ gcs[p]) :
                  c \in deleted[p] /\ c \notin store

C13_Witness ==
    \E p \in Passes :
        /\ CleanDone(p)
        /\ \E d \in Range(directKeys) \cap store :
              Range(Links(d)) \cap deleted[p] # {}

\* C14: Descendants puts a root's key in the set whether or not its node can
\* be fetched or has children; and whenever ColoredSet has succeeded every
\* recursive, best-effort, direct and internal root key is in the marked set.
C14_RootsAreLive ==
    /\ \A k \in Keys, be \in BOOLEAN :
          k \in Descendants(store, {}, <<k>>, be).set
    /\ \A p \in Passes :
          pc[p] \in {"allkeys", "unlock", "close", "done"} \cup SweepPcs =>
              (Range(recursiveKeys) \cup Range(bestEffortRoots)
                  \cup Range(directKeys) \cup Range(internalPins))
                      \subseteq gcs[p]

C14_Witness ==
    \E p \in Passes :
        /\ pc[p] = "allkeys"
        /\ Range(directKeys) \ store # {}
        /\ \E k \in Range(internalPins) : Links(k) = <<>>

\* The number of keys the sweep has received from keychan.
Consumed(p) == Len(enum[p]) - Len(keychan[p])

\* C15: after a failed DeleteBlock the failing key is neither deleted nor
\* emitted, no later enumerated key is deleted or emitted, the emitted keys
\* are absent from the store, nothing changes any more, and the output
\* channel gets closed and the lock released; at no time has the sweep gone
\* past an unmarked key without deleting and emitting it.
C15_DeleteErrorStops ==
    /\ [](\A p \in Passes :
            exit[p] = "delerr" =>
                /\ enum[p][Consumed(p)] \in store
                /\ enum[p][Consumed(p)] \notin
                       deleted[p] \cup Range(received[p])
                /\ Range(keychan[p]) \cap
                       (deleted[p] \cup Range(received[p])) = {}
                /\ Range(keychan[p]) \subseteq store
                /\ Range(received[p]) \cap store = {})
    /\ [](\A p \in Passes :
            \A i \in 1..(Consumed(p) - 1) :
                enum[p][i] \notin gcs[p] =>
                    enum[p][i] \in Range(received[p]))
    /\ [][\A p \in Passes :
            exit[p] = "delerr" =>
                /\ store' = store
                /\ received' = received
                /\ deleted' = deleted
                /\ keychan' = keychan]_vars
    /\ \A p \in Passes :
          (exit[p] = "delerr") ~> (output[p] = "closed" /\ p \notin lock)

C15_Witness ==
    \E p \in Passes :
        /\ pc[p] = "done"
        /\ exit[p] = "delerr"
        /\ received[p] # <<>>
        /\ keychan[p] # <<>>
        /\ output[p] = "closed"
        /\ lock = {}

\* C16 (as claimed): a pass stopped by a DeleteBlock failure shows the caller
\* something other than what a pass without error shows, which is a nil
\* error from GC and an output channel closed after the emitted keys.
C16_DeleteErrorObservable ==
    \A p \in Passes :
        (pc[p] = "done" /\ exit[p] = "delerr") =>
            (err[p] # "none" \/ output[p] # "closed")

\* C17 (as claimed): ColoredSet succeeds only if every node reachable
\* through child links from a recursive or internal root can be fetched.
C17_StrictClosureFails ==
    \A p \in Passes :
        pc[p] = "allkeys" =>
            Reach(store, Range(recursiveKeys) \cup Range(internalPins))
                \subseteq store

\* The keys of the sequence s outside the set, in the order of s.
RECURSIVE Unmarked(_, _)
Unmarked(s, set) ==
    IF s = <<>> THEN <<>>
    ELSE IF Head(s) \in set THEN Unmarked(Tail(s), set)
    ELSE <<Head(s)>> \o Unmarked(Tail(s), set)

IsPrefix(s, t) == Len(s) <= Len(t) /\ SubSeq(t, 1, Len(s)) = s

\* C18: at most one key is deleted and not yet emitted; it is the key in
\* hand at the handoff, and while the sweep waits for or deletes the next key
\* every deleted key has been received; the emitted keys are a prefix of the
\* unmarked enumerated keys in enumeration order, and all of them after a
\* pass that ran to completion.
C18_SequentialHandoff ==
    \A p \in Passes :
        /\ Cardinality(deleted[p] \ Range(received[p])) <= 1
        /\ pc[p] \in {"select", "delete"} => deleted[p] = Range(received[p])
        /\ pc[p] = "send" => deleted[p] \ Range(received[p]) = {cur[p]}
        /\ IsPrefix(received[p], Unmarked(enum[p], gcs[p]))
        /\ CleanDone(p) => received[p] = Unmarked(enum[p], gcs[p])

C18_Witness ==
    \E p \in Passes :
        /\ pc[p] = "send"
        /\ Len(received[p]) >= 2
        /\ received[p][1] > received[p][2]
        /\ gcs[p] \cap Range(enum[p]) # {}

\* C19: a key the enumeration delivers once ctx is cancelled is not taken by
\* the sweep: from the outer select of a cancelled pass no step goes on to
\* DeleteBlock, so the store and the emitted keys stay as they are.
C19_NoKeyAfterCancel ==
    [][\A p \in Passes :
          (cancelled[p] /\ pc[p] = "select") =>
              /\ pc'[p] # "delete"
              /\ cur'[p] = 0]_vars

\* C20: with the sweep goroutine scheduled fairly, a pass cancelled during
\* its sweep ends with the output channel closed and the lock released, also
\* when the consumer receives nothing more and when the enumeration delivers
\* nothing more; a pass that has ended holds no lock and left no open channel.
C20_CancelledSweepTerminates ==
    /\ \A p \in Passes :
          (cancelled[p] /\ pc[p] \in SweepPcs)
              ~> (pc[p] = "done" /\ output[p] = "closed" /\ p \notin lock)
    /\ \A p \in Passes :
          (stalled[p] /\ pc[p] \in SweepPcs) ~> (pc[p] = "done")
    /\ [](\A p \in Passes :
            (pc[p] = "done" /\ cancelled[p]) =>
                (output[p] = "closed" /\ p \notin lock))

C20_Witness ==
    \E p \in Passes :
        /\ pc[p] = "done"
        /\ stalled[p]
        /\ keychan[p] # <<>>
        /\ deleted[p] \ Range(received[p]) # {}
        /\ output[p] = "closed"
        /\ p \notin lock

\* The keys reachable from the roots R through the links, in the graph g, of
\* the blocks the store st holds.
RECURSIVE ReachIn(_, _, _)
ReachIn(g, st, R) ==
    LET more == R \cup UNION {Range(g[k]) : k \in R \cap st}
    IN  IF more = R THEN R ELSE ReachIn(g, st, more)

\* C12: on every graph, cyclic or with shared blocks, a call of Descendants
\* ends, its recursion is never deeper than the number of keys, and when it
\* returns nil the set holds exactly the keys reachable from the roots.
C12_DescendantsTerminates ==
    /\ <>(walk.pc \in {"done", "error"})
    /\ [](walk.pc # "idle" => Len(walk.stack) <= Cardinality(Keys))
    /\ [](walk.pc = "done" =>
            walk.set = ReachIn(graph, store, Range(walk.roots0)))

C12_Witness ==
    /\ walk.pc = "done"
    /\ \E a, b \in Nodes :
         /\ a # b
         /\ walk.roots0 = <<a>>
         /\ b \in Range(graph[a])
         /\ a \in Range(graph[b])
         /\ {a, b} \subseteq store
         /\ walk.set = {a, b}
====
